---- MODULE Spec2Model ----
(***************************************************************************)
(* A model of two engines of the falcon binary-analysis framework:         *)
(*   - il::Block (src/lib/il/block.rs): a sequence of block-locally        *)
(*     indexed IL instructions with two monotonic counters;                *)
(*   - loader::ElfLinker / Elf (src/lib/loader/elf.rs): the recursive      *)
(*     DT_NEEDED loader with fixed-step base address allocation.           *)
(* The block engine is explored by Spec, a single Elf by ElfSpec, the      *)
(* linker by LinkSpec.                                                     *)
(***************************************************************************)
EXTENDS Integers, Sequences, FiniteSets, TLC

VARIABLES
    blocks,     \* block object -> Block value, or NoBlock while not created
    issued,     \* block object -> the names temp() has returned on it, in order
    last,       \* the call that produced the current state
    root,       \* the path ElfLinker::new is given
    fs,         \* the files on disk: path -> the DT_NEEDED names of the ELF there
    layout,     \* which PT_LOAD headers the files carry
    loaded,     \* ElfLinker.loaded: base file name -> Elf
    memory,     \* ElfLinker.memory: the segments merged so far
    next_lib_address,   \* ElfLinker.next_lib_address
    stack,      \* the load_elf calls in progress, innermost last
    status,     \* where ElfLinker::new stands: "init", "running", "ok", "err"
    loads,      \* every load_elf that got its Elf, in order: path and base address
    buffer,     \* the byte buffer Elf::new is given, with what goblin reads from it
    elf,        \* the outcome of Elf::new: the Elf, an error, or a panic
    ret         \* the last call on the Elf or on the linker, and what it returned

blockVars == <<blocks, issued, last>>

linkVars == <<root, fs, layout, loaded, memory, next_lib_address, stack, status, loads>>

elfVars == <<buffer, elf, ret>>

vars == <<blocks, issued, last, root, fs, layout, loaded, memory, next_lib_address,
          stack, status, loads, buffer, elf, ret>>

----------------------------------------------------------------------------
(* Bounds of the block exploration *)

\* total of next_instruction_index over all live blocks
MaxAlloc == 3
\* total of next_temp_index over all live blocks
MaxTemp == 3
\* total of both counters over all live blocks
MaxWork == 3
\* The block objects: a method of Block sees at most two, the one it is called
\* on and the one it is handed (append) or hands back (clone_new_index).
BlockIds == {"self", "other"}
\* block indices a caller (the control flow graph) hands out
BlockIndices == {1, 10}

NoBlock == [index |-> -1, next_instruction_index |-> 0, next_temp_index |-> 0,
            instructions |-> <<>>, live |-> FALSE]

\* the six operations a builder call creates
Ops == {"assign", "store", "load", "brc", "phi", "raise"}

----------------------------------------------------------------------------
(* il::Block as a value *)

\* Block::new
new(index) ==
    [index |-> index, next_instruction_index |-> 0, next_temp_index |-> 0,
     instructions |-> <<>>, live |-> TRUE]

\* An Instruction, as far as a Block sees it: its index and its operation.
Instruction(index, op) == [index |-> index, op |-> op]

\* Instruction::clone_new_index as used by Block::append
instruction_clone_new_index(instruction, index) ==
    [instruction EXCEPT !.index = index]

mut_new_instruction_index_reuse(blk) ==
    [blk |-> [blk EXCEPT !.next_instruction_index = Len(blk.instructions) + 1],
     index |-> Len(blk.instructions)]

\* Block::new_instruction_index: the updated block and the returned index
new_instruction_index(blk) ==
    [blk |-> [blk EXCEPT !.next_instruction_index = blk.next_instruction_index + 1],
     index |-> blk.next_instruction_index]

\* Block::push
push(blk, instruction) ==
    [blk EXCEPT !.instructions = Append(blk.instructions, instruction)]

mut_builder_front(blk, op) ==
    LET r == new_instruction_index(blk)
    IN  [r.blk EXCEPT !.instructions = <<Instruction(r.index, op)>> \o r.blk.instructions]

\* Block::assign, store, load, brc, phi, raise: all have the same body
builder(blk, op) ==
    LET r == new_instruction_index(blk)
    IN  push(r.blk, Instruction(r.index, op))

mut_prepend_phi_tail(blk) ==
    LET r == new_instruction_index(blk)
    IN  push(r.blk, Instruction(r.index, "phi"))

\* Block::prepend_phi
prepend_phi(blk) ==
    LET r == new_instruction_index(blk)
    IN  [r.blk EXCEPT !.instructions = <<Instruction(r.index, "phi")>> \o r.blk.instructions]

RECURSIVE append_from(_, _, _)
\* the loop of Block::append, from position i of other's instructions
append_from(blk, instrs, i) ==
    IF i > Len(instrs) THEN blk
    ELSE LET r == new_instruction_index(blk)
         IN  append_from(push(r.blk, instruction_clone_new_index(instrs[i], r.index)),
                         instrs, i + 1)

mut_append_keep_indices(blk, other) ==
    [blk EXCEPT !.instructions = blk.instructions \o other.instructions,
                !.next_instruction_index =
                    blk.next_instruction_index + Len(other.instructions)]

mut_append_takes_counters(blk, other) ==
    [append_from(blk, other.instructions, 1) EXCEPT
        !.next_temp_index = blk.next_temp_index + other.next_temp_index]

\* Block::append
append(blk, other) == append_from(blk, other.instructions, 1)

\* the scan of Block::remove_instruction: first position holding index, 0 if none
vec_index(blk, index) ==
    IF \E i \in 1..Len(blk.instructions) : blk.instructions[i].index = index
    THEN CHOOSE i \in 1..Len(blk.instructions) :
            /\ blk.instructions[i].index = index
            /\ \A j \in 1..(i - 1) : blk.instructions[j].index # index
    ELSE 0

\* Vec::remove
vec_remove(s, i) == SubSeq(s, 1, i - 1) \o SubSeq(s, i + 1, Len(s))

mut_remove_instruction_position(blk, index) ==
    IF index + 1 <= Len(blk.instructions)
    THEN [blk |-> [blk EXCEPT !.instructions = vec_remove(blk.instructions, index + 1)],
          ok |-> TRUE]
    ELSE [blk |-> blk, ok |-> FALSE]

\* Block::remove_instruction: the updated block and whether it returned Ok
remove_instruction(blk, index) ==
    LET i == vec_index(blk, index)
    IN  IF i # 0
        THEN [blk |-> [blk EXCEPT !.instructions = vec_remove(blk.instructions, i)],
              ok |-> TRUE]
        ELSE [blk |-> blk, ok |-> FALSE]

mut_clone_new_index_reset(blk, index) ==
    [blk EXCEPT !.index = index, !.next_temp_index = 0]

\* Block::clone_new_index
clone_new_index(blk, index) == [blk EXCEPT !.index = index]

DigitChar == <<"0", "1", "2", "3", "4", "5", "6", "7", "8", "9">>

RECURSIVE Decimal(_)
\* the Display form "{}" of a u64
Decimal(n) ==
    IF n < 10 THEN <<DigitChar[n + 1]>>
    ELSE Decimal(n \div 10) \o <<DigitChar[(n % 10) + 1]>>

\* format!("temp_{}.{}", index, next_index), as a sequence of characters
temp_name(index, next_index) ==
    <<"t", "e", "m", "p", "_">> \o Decimal(index) \o <<".">> \o Decimal(next_index)

mut_temp_no_increment(blk) ==
    [blk |-> blk, name |-> temp_name(blk.index, blk.next_temp_index)]

\* Block::temp: the updated block and the name of the returned scalar
temp(blk) ==
    [blk |-> [blk EXCEPT !.next_temp_index = blk.next_temp_index + 1],
     name |-> temp_name(blk.index, blk.next_temp_index)]

----------------------------------------------------------------------------
(* The calls a client of Block can make, one action per method *)

RECURSIVE SumOver(_, _)
SumOver(f, S) ==
    IF S = {} THEN 0
    ELSE LET x == CHOOSE y \in S : TRUE IN f[x] + SumOver(f, S \ {x})

AllocTotal == SumOver([b \in BlockIds |-> blocks[b].next_instruction_index], BlockIds)
TempTotal == SumOver([b \in BlockIds |-> blocks[b].next_temp_index], BlockIds)

\* the exploration stops where a call would take the counters past the bounds
CanWork(n) == AllocTotal + TempTotal + n <= MaxWork
CanAlloc(n) == AllocTotal + n <= MaxAlloc /\ CanWork(n)
CanTemp(n) == TempTotal + n <= MaxTemp /\ CanWork(n)

Call(op, ok) == [op |-> op, ok |-> ok]

\* no block exists yet; the linker part stands still
Init ==
    /\ blocks = [b \in BlockIds |-> NoBlock]
    /\ issued = [b \in BlockIds |-> <<>>]
    /\ last = Call("none", TRUE)
    /\ root = <<>>
    /\ fs = <<>>
    /\ layout = ""
    /\ loaded = <<>>
    /\ memory = <<>>
    /\ next_lib_address = 0
    /\ stack = <<>>
    /\ status = "idle"
    /\ loads = <<>>
    /\ buffer = <<>>
    /\ elf = [tag |-> "none", value |-> <<>>]
    /\ ret = [op |-> "none", tag |-> "ok", value |-> <<>>]

LiveIndices == {blocks[b].index : b \in {x \in BlockIds : blocks[x].live}}

\* ControlFlowGraph::new_block creating block object b through Block::new(index);
\* the graph hands out increasing indices, each once; "self" is created first
CallNew(b, index) ==
    /\ ~blocks[b].live
    /\ b = "other" => blocks["self"].live
    /\ index \notin LiveIndices
    /\ \A i \in BlockIndices : i < index => i \in LiveIndices
    /\ blocks' = [blocks EXCEPT ![b] = new(index)]
    /\ last' = Call("new", TRUE)
    /\ UNCHANGED <<issued, linkVars, elfVars>>

BuilderCall(b, op) ==
    /\ blocks[b].live
    /\ CanAlloc(1)
    /\ blocks' = [blocks EXCEPT ![b] = builder(blocks[b], op)]
    /\ last' = Call(op, TRUE)
    /\ UNCHANGED <<issued, linkVars, elfVars>>

CallAssign(b) == BuilderCall(b, "assign")
CallStore(b) == BuilderCall(b, "store")
CallLoad(b) == BuilderCall(b, "load")
CallBrc(b) == BuilderCall(b, "brc")
CallPhi(b) == BuilderCall(b, "phi")
CallRaise(b) == BuilderCall(b, "raise")

CallPrependPhi(b) ==
    /\ blocks[b].live
    /\ CanAlloc(1)
    /\ blocks' = [blocks EXCEPT ![b] = prepend_phi(blocks[b])]
    /\ last' = Call("prepend_phi", TRUE)
    /\ UNCHANGED <<issued, linkVars, elfVars>>

\* b.append(&o); the borrow rules make o another block than b
CallAppend(b, o) ==
    /\ b # o
    /\ blocks[b].live /\ blocks[o].live
    /\ CanAlloc(Len(blocks[o].instructions))
    /\ blocks' = [blocks EXCEPT ![b] = append(blocks[b], blocks[o])]
    /\ last' = Call("append", TRUE)
    /\ UNCHANGED <<issued, linkVars, elfVars>>

CallRemoveInstruction(b, index) ==
    /\ blocks[b].live
    /\ LET r == remove_instruction(blocks[b], index)
       IN  /\ blocks' = [blocks EXCEPT ![b] = r.blk]
           /\ last' = Call("remove_instruction", r.ok)
    /\ UNCHANGED <<issued, linkVars, elfVars>>

\* block object d becomes s.clone_new_index(index)
CallCloneNewIndex(s, d, index) ==
    /\ blocks[s].live /\ ~blocks[d].live
    /\ CanAlloc(blocks[s].next_instruction_index)
    /\ CanTemp(blocks[s].next_temp_index)
    /\ CanWork(blocks[s].next_instruction_index + blocks[s].next_temp_index)
    /\ blocks' = [blocks EXCEPT ![d] = clone_new_index(blocks[s], index)]
    /\ last' = Call("clone_new_index", TRUE)
    /\ UNCHANGED <<issued, linkVars, elfVars>>

CallTemp(b) ==
    /\ blocks[b].live
    /\ CanTemp(1)
    /\ LET r == temp(blocks[b])
       IN  /\ blocks' = [blocks EXCEPT ![b] = r.blk]
           /\ issued' = [issued EXCEPT ![b] = Append(@, r.name)]
    /\ last' = Call("temp", TRUE)
    /\ UNCHANGED <<linkVars, elfVars>>

Next ==
    \/ \E b \in BlockIds, i \in BlockIndices : CallNew(b, i)
    \/ \E b \in BlockIds : CallAssign(b)
    \/ \E b \in BlockIds : CallStore(b)
    \/ \E b \in BlockIds : CallLoad(b)
    \/ \E b \in BlockIds : CallBrc(b)
    \/ \E b \in BlockIds : CallPhi(b)
    \/ \E b \in BlockIds : CallRaise(b)
    \/ \E b \in BlockIds : CallPrependPhi(b)
    \/ \E b, o \in BlockIds : CallAppend(b, o)
    \/ \E b \in BlockIds, i \in 0..MaxAlloc : CallRemoveInstruction(b, i)
    \/ \E s, d \in BlockIds, i \in BlockIndices : CallCloneNewIndex(s, d, i)
    \/ \E b \in BlockIds : CallTemp(b)

Spec == Init /\ [][Next]_vars

----------------------------------------------------------------------------
(* loader::elf: constants and paths *)

\* Addresses are counted in units of 0x0100_0000 bytes.
\* const DEFAULT_LIB_BASE: u64 = 0x80000000
DEFAULT_LIB_BASE == 128
\* const LIB_BASE_STEP: u64 = 0x04000000
LIB_BASE_STEP == 4

\* total number of DT_NEEDED entries over all files
MaxEdges == 3
\* nesting of load_elf calls the exploration follows
MaxDepth == 5

\* A path is its sequence of components. The files that exist:
FilePaths == {<<"a">>, <<"b">>, <<"c">>, <<"d", "b">>}
\* the paths ElfLinker::new is called with; there is no file at x
Roots == {<<"a">>, <<"b">>, <<"d", "b">>, <<"x">>}
\* the strings DT_NEEDED entries hold; no file goes by the name x
NeedNames == {<<"a">>, <<"b">>, <<"c">>, <<"d", "b">>, <<"x">>}

\* Path::parent
parent(path) == SubSeq(path, 1, Len(path) - 1)
\* PathBuf::push of a relative path
path_push(dir, path) == dir \o path
\* Path::file_name, as a string
file_name(path) == path[Len(path)]
\* Path::exists
exists(path) == path \in FilePaths

\* load_elf: the file a name stands for, beside the root file if there is one
resolve(rootpath, filename) ==
    LET base_path == path_push(parent(rootpath), filename)
    IN  IF exists(base_path) THEN base_path ELSE filename

----------------------------------------------------------------------------
(* loader::elf::Elf as a value *)

\* the outcome of a call: Ok(value), Err(..), or a panic that ends the process
Ok(value) == [tag |-> "ok", value |-> value]
Err == [tag |-> "err", value |-> <<>>]
Panic == [tag |-> "panic", value |-> <<>>]

\* a call and its outcome
Ret(op, r) == [op |-> op, tag |-> r.tag, value |-> r.value]
\* nothing was called yet
NoRet == Ret("none", Ok(<<>>))
\* Elf::new was not called yet
NoElf == [tag |-> "none", value |-> <<>>]

\* let peek_bytes: [u8; 16]
SIZEOF_IDENT == 16
\* "\x7fELF"
ELFMAG == <<127, 69, 76, 70>>
\* an e_ident: magic, ELFCLASS32, ELFDATA2LSB, EV_CURRENT, padding
ElfIdent == ELFMAG \o <<1, 1, 1, 0, 0, 0, 0, 0, 0, 0, 0, 0>>
\* the first sixteen bytes of a file of another kind, "#!/bin/sh\necho \n"
OtherIdent == <<35, 33, 47, 98, 105, 110, 47, 115, 104, 10, 101, 99, 104, 111, 32, 10>>
\* the bytes of a file behind its first sixteen
Body == <<7, 9>>

\* goblin::elf::program_header::PT_LOAD, PT_DYNAMIC
PT_LOAD == 1
PT_DYNAMIC == 2
\* goblin::elf::header::EM_386, EM_X86_64
EM_386 == 3
EM_X86_64 == 62

\* a program header
PhT(type, offset, vaddr, filesz, memsz) ==
    [p_type |-> type, p_offset |-> offset, p_vaddr |-> vaddr,
     p_filesz |-> filesz, p_memsz |-> memsz]

\* a PT_LOAD program header
PhAt(offset, vaddr, filesz, memsz) == PhT(PT_LOAD, offset, vaddr, filesz, memsz)

\* a PT_LOAD program header whose file range starts the file
Ph(vaddr, filesz, memsz) == PhAt(0, vaddr, filesz, memsz)

\* a symbol table entry: name, sym.is_function(), st_value
Sym(name, function, st_value) ==
    [name |-> name, function |-> function, st_value |-> st_value]

\* a byte buffer together with what goblin::elf::Elf::parse reads from it
\* (parses: whether parse returns Ok)
Image(bytes, parses, e_entry, e_machine, dynsyms, syms, headers) ==
    [bytes |-> bytes, parses |-> parses, e_entry |-> e_entry, e_machine |-> e_machine,
     dynsyms |-> dynsyms, syms |-> syms, program_headers |-> headers]

\* a buffer that goblin cannot parse as an ELF
Unparsed(bytes) == Image(bytes, FALSE, 0, 0, <<>>, <<>>, <<>>)

\* goblin::peek_bytes on the sixteen bytes
peek_bytes(bytes) ==
    IF SubSeq(bytes, 1, Len(ELFMAG)) = ELFMAG THEN "Elf" ELSE "Unknown"

\* struct Elf
ElfValue(image, base_address, user_function_entries) ==
    [image |-> image, base_address |-> base_address,
     user_function_entries |-> user_function_entries]

\* Elf::new: &bytes[0..16] panics on a buffer shorter than sixteen bytes
Elf_new(image, base_address) ==
    IF Len(image.bytes) < SIZEOF_IDENT THEN Panic
    ELSE IF peek_bytes(SubSeq(image.bytes, 1, SIZEOF_IDENT)) = "Elf"
         THEN Ok(ElfValue(image, base_address, <<>>))
         ELSE Err

\* Elf::add_user_function
add_user_function(self, address) ==
    [self EXCEPT !.user_function_entries = Append(@, address)]

\* MemorySegment::new(address, bytes, permissions), without the permissions
MemorySegment(address, bytes) == [address |-> address, bytes |-> bytes]

\* Memory::new
Memory_new == <<>>

\* Memory::add_segment
add_segment(mem, segment) == Append(mem, segment)

\* vec![0; n]
Zeros(n) == [i \in 1..n |-> 0]

\* self.bytes.get(file_range): the range must lie inside the buffer
in_buffer(bytes, ph) == ph.p_offset + ph.p_filesz <= Len(bytes)

\* (ph.p_memsz - ph.p_filesz) on u64 when the sizes differ: it overflows when
\* p_memsz is the smaller, which panics, or wraps to a length vec! cannot allocate
fill_overflows(ph) == ph.p_filesz # ph.p_memsz /\ ph.p_memsz < ph.p_filesz

\* Elf::memory, one header: the file bytes, zero-extended to p_memsz
segment_of(bytes, ph, base_address) ==
    MemorySegment(ph.p_vaddr + base_address,
                  SubSeq(bytes, ph.p_offset + 1, ph.p_offset + ph.p_filesz)
                    \o (IF ph.p_filesz # ph.p_memsz
                        THEN Zeros(ph.p_memsz - ph.p_filesz)
                        ELSE <<>>))

RECURSIVE memory_from(_, _, _)
\* the loop of Elf::memory from header i on, mem holding the segments so far
memory_from(self, i, mem) ==
    LET phs == self.image.program_headers
    IN  IF i > Len(phs) THEN Ok(mem)
        ELSE IF phs[i].p_type # PT_LOAD THEN memory_from(self, i + 1, mem)
        ELSE IF ~in_buffer(self.image.bytes, phs[i]) THEN Err
        ELSE IF fill_overflows(phs[i]) THEN Panic
        ELSE memory_from(self, i + 1,
                add_segment(mem, segment_of(self.image.bytes, phs[i], self.base_address)))

\* Elf::memory; self.elf() unwraps the parse
Elf_memory(self) ==
    IF ~self.image.parses THEN Panic ELSE memory_from(self, 1, Memory_new)

\* FunctionEntry::new(address, name): name is <<>> for None, <<s>> for Some(s)
FunctionEntry(address, name) == [address |-> address, name |-> name]

HexChar == <<"0", "1", "2", "3", "4", "5", "6", "7", "8", "9",
             "a", "b", "c", "d", "e", "f">>

RECURSIVE LowerHex(_)
\* the LowerHex form "{:x}" of a u64
LowerHex(n) ==
    IF n < 16 THEN <<HexChar[n + 1]>>
    ELSE LowerHex(n \div 16) \o <<HexChar[(n % 16) + 1]>>

\* format!("user_function_{:x}", user_function_entry), as a sequence of characters
user_function_name(address) ==
    <<"u", "s", "e", "r", "_", "f", "u", "n", "c", "t", "i", "o", "n", "_">>
        \o LowerHex(address)

\* sym.is_function() && sym.st_value != 0
is_added(sym) == sym.function /\ sym.st_value # 0

\* the loops over elf.dynsyms and elf.syms: the entries pushed for one table
symbol_entries(table, base_address) ==
    LET added == SelectSeq(table, is_added)
    IN  [i \in 1..Len(added) |->
            FunctionEntry(added[i].st_value + base_address, <<added[i].name>>)]

\* functions_added once both tables are done: the unrelocated st_values
functions_added(image) ==
    {image.dynsyms[i].st_value : i \in {j \in 1..Len(image.dynsyms) : is_added(image.dynsyms[j])}}
        \cup {image.syms[i].st_value : i \in {j \in 1..Len(image.syms) : is_added(image.syms[j])}}

mut_entry_point_entries_always(self) ==
    <<FunctionEntry(self.image.e_entry + self.base_address, <<>>)>>

\* if !functions_added.contains(&elf.header.e_entry) { push(e_entry + base, None) }
entry_point_entries(self) ==
    IF self.image.e_entry \notin functions_added(self.image)
    THEN <<FunctionEntry(self.image.e_entry + self.base_address, <<>>)>>
    ELSE <<>>

RECURSIVE user_entries_from(_, _)
\* the loop over self.user_function_entries from position i on; the test looks
\* the relocated address up in functions_added
user_entries_from(self, i) ==
    IF i > Len(self.user_function_entries) THEN <<>>
    ELSE LET u == self.user_function_entries[i]
         IN  (IF (u + self.base_address) \in functions_added(self.image)
              THEN <<>>
              ELSE <<FunctionEntry(u + self.base_address, <<user_function_name(u)>>)>>)
                \o user_entries_from(self, i + 1)

\* Elf::function_entries; self.elf() unwraps the parse
Elf_function_entries(self) ==
    IF ~self.image.parses THEN Panic
    ELSE Ok(symbol_entries(self.image.dynsyms, self.base_address)
                \o symbol_entries(self.image.syms, self.base_address)
                \o entry_point_entries(self)
                \o user_entries_from(self, 1))

\* Elf::program_entry: e_entry as it stands in the header
Elf_program_entry(self) ==
    IF ~self.image.parses THEN Panic ELSE Ok(self.image.e_entry)

\* Elf::architecture
Elf_architecture(self) ==
    IF ~self.image.parses THEN Panic
    ELSE IF self.image.e_machine = EM_386 THEN Ok("X86") ELSE Err

----------------------------------------------------------------------------
(* The files ElfLinker finds on disk *)

\* what the files hold: "fit", "high" and "long" differ in the PT_LOAD headers;
\* under the others file c is damaged: shorter than an e_ident, not an ELF,
\* an ELF that does not parse, a PT_LOAD file range outside the file
Layouts == {"fit", "high", "long", "short", "other", "torn", "range"}

\* the program headers of the file at path under a layout
program_headers(lay, path) ==
    CASE lay = "high" /\ path = <<"a">> -> <<Ph(DEFAULT_LIB_BASE + LIB_BASE_STEP, 1, 1)>>
      [] lay = "high" /\ path = <<"b">> -> <<Ph(2 * LIB_BASE_STEP, 1, 1)>>
      [] lay = "long" /\ path = <<"b">> -> <<Ph(0, 2, LIB_BASE_STEP + 2)>>
      [] lay = "range" /\ path = <<"c">> -> <<PhAt(SIZEOF_IDENT + 1, 0, 2, 2)>>
      [] OTHER -> <<Ph(0, 1, 2), Ph(2, 2, 2)>>

\* file.read_to_end(&mut buf)
file_bytes(lay, path) ==
    CASE lay = "short" /\ path = <<"c">> -> ELFMAG
      [] lay = "other" /\ path = <<"c">> -> OtherIdent \o Body
      [] lay = "torn" /\ path = <<"c">> -> ElfIdent
      [] OTHER -> ElfIdent \o Body

\* e_entry of the file at path: each file has its own
e_entry_of(path) ==
    CASE path = <<"a">> -> 1
      [] path = <<"b">> -> 2
      [] path = <<"c">> -> 3
      [] OTHER -> 4

\* the file at path: its bytes and what goblin reads from them; every file
\* defines the function f at 1, and only d/b is built for another machine
file_image(lay, path) ==
    Image(file_bytes(lay, path),
          ~(lay \in {"short", "other", "torn"} /\ path = <<"c">>),
          e_entry_of(path),
          IF path = <<"d", "b">> THEN EM_X86_64 ELSE EM_386,
          <<Sym(<<"f">>, TRUE, 1)>>,
          <<>>,
          program_headers(lay, path))

\* Elf::from_file_with_base_address
from_file_with_base_address(lay, path, base_address) ==
    IF ~exists(path) THEN Err ELSE Elf_new(file_image(lay, path), base_address)

\* load_elf from Elf::from_file_with_base_address(..)? to elf.memory()?: the
\* segments to merge, or the failure that ends the call
load_file(lay, path, base_address) ==
    LET r == from_file_with_base_address(lay, path, base_address)
    IN  IF r.tag # "ok" THEN r ELSE Elf_memory(r.value)

mut_elf_memory_unrelocated(lay, path, base_address) ==
    Elf_memory(ElfValue(file_image(lay, path), 0, <<>>)).value

\* Elf::memory: the segments of the Elf of the file at path, loaded at base_address
elf_memory(lay, path, base_address) ==
    Elf_memory(ElfValue(file_image(lay, path), base_address, <<>>)).value

\* Memory::add_segment for each segment of an Elf
add_segments(mem, segments) == mem \o segments

----------------------------------------------------------------------------
(* loader::elf::ElfLinker *)

\* the Elf an entry of loaded stands for: the file it was read from and its base
Elf(path, base_address) == [path |-> path, base_address |-> base_address]

mut_map_insert_keep(map, key, value) ==
    [k \in DOMAIN map \cup {key} |-> IF k \in DOMAIN map THEN map[k] ELSE value]

\* BTreeMap::insert: a present key gets the new value
map_insert(map, key, value) ==
    [k \in DOMAIN map \cup {key} |-> IF k = key THEN value ELSE map[k]]

\* self.loaded.get(&so_name).is_none(): the DT_NEEDED string itself is the key looked up
not_loaded(map, so_name) ==
    ~(Len(so_name) = 1 /\ so_name[1] \in DOMAIN map)

mut_next_address_stay(address) == address

\* self.next_lib_address += LIB_BASE_STEP
next_address(address) == address + LIB_BASE_STEP

\* the files a DT_NEEDED entry of graph g leads to, and the root
Targets(rootpath, g) ==
    {resolve(rootpath, rootpath)} \cup
    {resolve(rootpath, g[p][i]) : <<p, i>> \in
        {<<q, j>> \in FilePaths \X (1..MaxEdges) : j <= Len(g[q])}}

RECURSIVE Graphs(_, _)
\* the DT_NEEDED lists of the files, at most k entries in all, given only to
\* files that the entries before lead to
Graphs(rootpath, k) ==
    IF k = 0 THEN {[p \in FilePaths |-> <<>>]}
    ELSE LET G == Graphs(rootpath, k - 1)
         IN  G \cup {[g EXCEPT ![p] = Append(g[p], n)] :
                        <<g, p, n>> \in
                            {<<h, q, m>> \in G \X FilePaths \X NeedNames :
                                q \in Targets(rootpath, h)}}

\* ElfLinker::new up to its call of load_elf, for each file system and root;
\* the block part stands still
LinkInit ==
    /\ root \in Roots
    /\ layout \in Layouts
    /\ fs \in Graphs(root, MaxEdges)
    /\ loaded = [k \in {} |-> Elf(<<>>, 0)]
    /\ memory = <<>>
    /\ next_lib_address = DEFAULT_LIB_BASE
    /\ stack = <<>>
    /\ status = "init"
    /\ loads = <<>>
    /\ blocks = [b \in BlockIds |-> NoBlock]
    /\ issued = [b \in BlockIds |-> <<>>]
    /\ last = Call("none", TRUE)
    /\ buffer = <<>>
    /\ elf = NoElf
    /\ ret = NoRet

Frame(key, needed) == [key |-> key, needed |-> needed, pos |-> 1]

\* load_elf(filename, base_address), called under the frames in callers, from
\* its first line to the head of its loop over dt_needed(), when the file can
\* be opened
LoadElfEnter(filename, base_address, callers) ==
    LET path == resolve(root, filename)
        key == file_name(path)
    IN  /\ load_file(layout, path, base_address).tag = "ok"
        /\ memory' = add_segments(memory, elf_memory(layout, path, base_address))
        /\ loaded' = map_insert(loaded, key, Elf(path, base_address))
        /\ stack' = Append(callers, Frame(key, fs[path]))
        /\ loads' = Append(loads, Elf(path, base_address))
        /\ status' = "running"

\* elf_linker.load_elf(filename, 0) in ElfLinker::new
LinkerNew ==
    /\ status = "init"
    /\ LoadElfEnter(root, 0, <<>>)
    /\ UNCHANGED <<root, fs, layout, next_lib_address, blockVars, elfVars>>

Top == stack[Len(stack)]

\* a load_elf call stands at an entry of its dt_needed() list
AtNeeded ==
    /\ status = "running"
    /\ stack # <<>>
    /\ Top.pos <= Len(Top.needed)

\* the innermost call moves on to its next entry
Advance(s) == [s EXCEPT ![Len(s)].pos = @ + 1]

\* for so_name: loaded already, the entry is passed over
NeededSkip ==
    /\ AtNeeded
    /\ ~not_loaded(loaded, Top.needed[Top.pos])
    /\ stack' = Advance(stack)
    /\ UNCHANGED <<root, fs, layout, loaded, memory, next_lib_address, status, loads,
                   blockVars, elfVars>>

\* for so_name: not loaded, the address moves on and load_elf is called
NeededLoad ==
    /\ AtNeeded
    /\ Len(stack) < MaxDepth
    /\ not_loaded(loaded, Top.needed[Top.pos])
    /\ next_lib_address' = next_address(next_lib_address)
    /\ LoadElfEnter(Top.needed[Top.pos], next_lib_address', Advance(stack))
    /\ UNCHANGED <<root, fs, layout, blockVars, elfVars>>

\* the way a failed load_elf ends ElfLinker::new: an Err goes up through every
\* caller's `?`, a panic unwinds
Failed(r) == IF r.tag = "err" THEN "err" ELSE "panic"

\* elf_linker.load_elf(filename, 0)? in ElfLinker::new fails
LinkerNewFail ==
    /\ status = "init"
    /\ load_file(layout, resolve(root, root), 0).tag # "ok"
    /\ status' = Failed(load_file(layout, resolve(root, root), 0))
    /\ UNCHANGED <<root, fs, layout, loaded, memory, next_lib_address, stack, loads,
                   blockVars, elfVars>>

\* for so_name: not loaded, the address moves on, and the load_elf called fails
\* before it merges anything
NeededFail ==
    /\ AtNeeded
    /\ not_loaded(loaded, Top.needed[Top.pos])
    /\ load_file(layout, resolve(root, Top.needed[Top.pos]),
                 next_address(next_lib_address)).tag # "ok"
    /\ next_lib_address' = next_address(next_lib_address)
    /\ stack' = <<>>
    /\ status' = Failed(load_file(layout, resolve(root, Top.needed[Top.pos]),
                                  next_lib_address'))
    /\ UNCHANGED <<root, fs, layout, memory, loaded, loads, blockVars, elfVars>>

\* Ok(()) at the end of load_elf; the outermost one ends ElfLinker::new
LoadElfReturn ==
    /\ status = "running"
    /\ stack # <<>>
    /\ Top.pos > Len(Top.needed)
    /\ stack' = SubSeq(stack, 1, Len(stack) - 1)
    /\ status' = IF Len(stack) = 1 THEN "ok" ELSE "running"
    /\ UNCHANGED <<root, fs, layout, loaded, memory, next_lib_address, loads, blockVars, elfVars>>

\* the Elf a value of the loaded map is
elf_of(lay, e) == ElfValue(file_image(lay, e.path), e.base_address, <<>>)

\* the keys a BTreeMap<String, Elf> can hold here, in the order it iterates
KeyOrder == <<"a", "b", "c">>

mut_linker_entries_first_only(map, lay, keys) ==
    IF \E i \in 1..Len(keys) : keys[i] \in DOMAIN map
    THEN Elf_function_entries(elf_of(lay,
            map[keys[CHOOSE i \in 1..Len(keys) :
                        /\ keys[i] \in DOMAIN map
                        /\ \A j \in 1..(i - 1) : keys[j] \notin DOMAIN map]]))
    ELSE Ok(<<>>)

RECURSIVE linker_entries(_, _, _)
\* ElfLinker::function_entries: the loop over &self.loaded, for the keys in keys
linker_entries(map, lay, keys) ==
    IF keys = <<>> THEN Ok(<<>>)
    ELSE IF Head(keys) \notin DOMAIN map THEN linker_entries(map, lay, Tail(keys))
    ELSE LET r == Elf_function_entries(elf_of(lay, map[Head(keys)]))
             rest == linker_entries(map, lay, Tail(keys))
         IN  IF r.tag # "ok" THEN r
             ELSE IF rest.tag # "ok" THEN rest
             ELSE Ok(r.value \o rest.value)

\* ElfLinker::memory
LinkerMemory ==
    /\ status = "ok"
    /\ ret' = Ret("memory", Ok(memory))
    /\ UNCHANGED <<linkVars, blockVars, buffer, elf>>

\* ElfLinker::function_entries
LinkerFunctionEntries ==
    /\ status = "ok"
    /\ ret' = Ret("function_entries", linker_entries(loaded, layout, KeyOrder))
    /\ UNCHANGED <<linkVars, blockVars, buffer, elf>>

\* self.loaded[filename] of ElfLinker::program_entry and architecture: indexing
\* panics when the key is missing
root_entry(map, rootpath, lay) ==
    IF file_name(rootpath) \in DOMAIN map
    THEN Ok(elf_of(lay, map[file_name(rootpath)]))
    ELSE Panic

\* ElfLinker::program_entry
LinkerProgramEntry ==
    /\ status = "ok"
    /\ LET e == root_entry(loaded, root, layout)
       IN  ret' = Ret("program_entry",
                      IF e.tag = "ok" THEN Elf_program_entry(e.value) ELSE e)
    /\ UNCHANGED <<linkVars, blockVars, buffer, elf>>

\* ElfLinker::architecture
LinkerArchitecture ==
    /\ status = "ok"
    /\ LET e == root_entry(loaded, root, layout)
       IN  ret' = Ret("architecture",
                      IF e.tag = "ok" THEN Elf_architecture(e.value) ELSE e)
    /\ UNCHANGED <<linkVars, blockVars, buffer, elf>>

LinkNext ==
    \/ LinkerNew
    \/ LinkerNewFail
    \/ NeededSkip
    \/ NeededLoad
    \/ NeededFail
    \/ LoadElfReturn
    \/ LinkerMemory
    \/ LinkerFunctionEntries
    \/ LinkerProgramEntry
    \/ LinkerArchitecture

LinkSpec == LinkInit /\ [][LinkNext]_vars

----------------------------------------------------------------------------
(* The calls a client of one Elf can make *)

\* calls of add_user_function the exploration follows
MaxUser == 2

\* the base addresses an Elf is created at
Bases == {0, 1}
\* the addresses a user declares
UserAddresses == {1, 2}
\* e_entry values
EntryPoints == {0, 1, 2}

DynsymTables ==
    {<<>>,
     <<Sym(<<"f">>, TRUE, 1)>>,
     <<Sym(<<"z">>, TRUE, 0)>>,
     <<Sym(<<"o">>, FALSE, 2)>>}

SymTables ==
    {<<>>,
     <<Sym(<<"g">>, TRUE, 2)>>,
     <<Sym(<<"f">>, TRUE, 1), Sym(<<"v">>, FALSE, 1)>>}

\* program header tables over an 18 byte file: none; p_memsz equal to, above
\* and below p_filesz; no file bytes at all; a file range past the end; two
\* PT_LOAD headers; a header that is not PT_LOAD
HeaderTables ==
    {<<>>,
     <<PhAt(0, 0, 2, 2)>>,
     <<PhAt(SIZEOF_IDENT, 1, 1, 3)>>,
     <<PhAt(SIZEOF_IDENT, 0, 2, 1)>>,
     <<PhAt(SIZEOF_IDENT + 2, 3, 0, 2)>>,
     <<PhAt(SIZEOF_IDENT + 1, 0, 2, 2)>>,
     <<PhAt(0, 0, 1, 1), PhAt(SIZEOF_IDENT, 2, 2, 3)>>,
     <<PhT(PT_DYNAMIC, SIZEOF_IDENT, 5, 1, 1), PhAt(SIZEOF_IDENT + 1, 0, 1, 1)>>}

\* the buffers Elf::new is tried on: empty, one byte short of an e_ident, the
\* magic alone, another kind of file, an e_ident with nothing parsable behind
\* it, and ELF files
Images ==
    {Unparsed(<<>>),
     Unparsed(SubSeq(ElfIdent, 1, SIZEOF_IDENT - 1)),
     Unparsed(ELFMAG),
     Unparsed(OtherIdent \o Body),
     Unparsed(ElfIdent)}
    \cup {Image(ElfIdent \o Body, TRUE, e, EM_386, d, s, h) :
            e \in EntryPoints, d \in DynsymTables, s \in SymTables, h \in HeaderTables}

\* a buffer is at hand, Elf::new is not called yet; blocks and linker stand still
ElfInit ==
    /\ buffer \in Images
    /\ elf = NoElf
    /\ ret = NoRet
    /\ blocks = [b \in BlockIds |-> NoBlock]
    /\ issued = [b \in BlockIds |-> <<>>]
    /\ last = Call("none", TRUE)
    /\ root = <<>>
    /\ fs = <<>>
    /\ layout = ""
    /\ loaded = <<>>
    /\ memory = <<>>
    /\ next_lib_address = 0
    /\ stack = <<>>
    /\ status = "idle"
    /\ loads = <<>>

\* Elf::new(bytes, base_address)
CallElfNew(base_address) ==
    /\ elf = NoElf
    /\ elf' = Elf_new(buffer, base_address)
    /\ ret' = Ret("new", [elf' EXCEPT !.value = <<>>])
    /\ UNCHANGED <<buffer, blockVars, linkVars>>

\* the process is running and holds an Elf
HasElf == elf.tag = "ok" /\ ret.tag # "panic"

\* elf.add_user_function(address)
CallAddUserFunction(address) ==
    /\ HasElf
    /\ Len(elf.value.user_function_entries) < MaxUser
    /\ elf' = Ok(add_user_function(elf.value, address))
    /\ ret' = Ret("add_user_function", Ok(<<>>))
    /\ UNCHANGED <<buffer, blockVars, linkVars>>

\* elf.function_entries()
CallFunctionEntries ==
    /\ HasElf
    /\ ret' = Ret("function_entries", Elf_function_entries(elf.value))
    /\ UNCHANGED <<buffer, elf, blockVars, linkVars>>

\* elf.memory()
CallMemory ==
    /\ HasElf
    /\ ret' = Ret("memory", Elf_memory(elf.value))
    /\ UNCHANGED <<buffer, elf, blockVars, linkVars>>

ElfNext ==
    \/ \E b \in Bases : CallElfNew(b)
    \/ \E u \in UserAddresses : CallAddUserFunction(u)
    \/ CallFunctionEntries
    \/ CallMemory

ElfSpec == ElfInit /\ [][ElfNext]_vars

----------------------------------------------------------------------------
(* Properties of Block *)

Live == {b \in BlockIds : blocks[b].live}

Positions(blk) == 1..Len(blk.instructions)

Indices(blk) == {blk.instructions[i].index : i \in Positions(blk)}

IndicesDistinct(blk) ==
    \A i, j \in Positions(blk) :
        i # j => blk.instructions[i].index # blk.instructions[j].index

IndicesBelowCounter(blk) ==
    \A i \in Positions(blk) : blk.instructions[i].index < blk.next_instruction_index

\* an index that appears in a block was not handed out by it before
FreshIndicesOnly(old, now) ==
    \A i \in Indices(now) \ Indices(old) : i >= old.next_instruction_index

\* C1: the instruction indices of a block are pairwise distinct and below
\* next_instruction_index; next_instruction_index never decreases and an
\* instruction that enters a block gets an index the block never handed out,
\* so the index of a removed instruction is not assigned again.
C1_IndicesUniqueNeverReused ==
    /\ [](\A b \in Live : IndicesDistinct(blocks[b]) /\ IndicesBelowCounter(blocks[b]))
    /\ [][\A b \in Live :
            /\ blocks'[b].next_instruction_index >= blocks[b].next_instruction_index
            /\ FreshIndicesOnly(blocks[b], blocks'[b])]_vars

\* an index was removed from a block and a later instruction got a larger one
C1_Witness ==
    /\ blocks["self"].live
    /\ Len(blocks["self"].instructions) = 2
    /\ blocks["self"].next_instruction_index = 3
    /\ Indices(blocks["self"]) = {0, 2}

\* what one builder call does to a block
AppendedOne(old, now, op) ==
    /\ Len(now.instructions) = Len(old.instructions) + 1
    /\ now.instructions[Len(now.instructions)] = Instruction(old.next_instruction_index, op)
    /\ SubSeq(now.instructions, 1, Len(old.instructions)) = old.instructions
    /\ now.next_instruction_index = old.next_instruction_index + 1

\* C2: assign, store, load, brc, phi and raise each add exactly one instruction,
\* at the last position, with the index next_instruction_index had before the
\* call (0 on a new block), raise the counter by one and leave the instructions
\* that were there, their positions and indices as they were.
C2_BuilderAppendsOne ==
    [][\A b \in BlockIds :
        /\ (last'.op = "assign" /\ CallAssign(b)) =>
                AppendedOne(blocks[b], blocks'[b], "assign")
        /\ (last'.op = "store" /\ CallStore(b)) =>
                AppendedOne(blocks[b], blocks'[b], "store")
        /\ (last'.op = "load" /\ CallLoad(b)) =>
                AppendedOne(blocks[b], blocks'[b], "load")
        /\ (last'.op = "brc" /\ CallBrc(b)) =>
                AppendedOne(blocks[b], blocks'[b], "brc")
        /\ (last'.op = "phi" /\ CallPhi(b)) =>
                AppendedOne(blocks[b], blocks'[b], "phi")
        /\ (last'.op = "raise" /\ CallRaise(b)) =>
                AppendedOne(blocks[b], blocks'[b], "raise")
        /\ (last'.op = "new" /\ \E i \in BlockIndices : CallNew(b, i)) =>
                /\ blocks'[b].next_instruction_index = 0
                /\ blocks'[b].instructions = <<>>]_vars

\* a store was just added behind an instruction with index 0
C2_Witness ==
    /\ last.op = "store"
    /\ \E b \in Live :
        /\ Len(blocks[b].instructions) = 2
        /\ blocks[b].instructions[1].index = 0
        /\ blocks[b].instructions[2] = Instruction(1, "store")
        /\ blocks[b].next_instruction_index = 2

\* what append(other) does to the target when the appended instructions are
\* numbered from first
AppendedBlock(old, now, other, first) ==
    LET N == Len(old.instructions)
        M == Len(other.instructions)
    IN  /\ Len(now.instructions) = N + M
        /\ SubSeq(now.instructions, 1, N) = old.instructions
        /\ \A i \in 1..M :
            /\ now.instructions[N + i].op = other.instructions[i].op
            /\ now.instructions[N + i].index = first + (i - 1)

C4_RemoveInstruction ==
    [][\A b \in BlockIds, i \in 0..MaxAlloc :
        (last'.op = "remove_instruction" /\ CallRemoveInstruction(b, i)) =>
            IF i \in Indices(blocks[b])
            THEN /\ last'.ok
                 /\ Len(blocks'[b].instructions) = Len(blocks[b].instructions) - 1
                 /\ i \notin Indices(blocks'[b])
                 /\ blocks'[b].instructions =
                        SelectSeq(blocks[b].instructions, LAMBDA x : x.index # i)
                 /\ blocks'[b].next_instruction_index = blocks[b].next_instruction_index
                 /\ blocks'[b].next_temp_index = blocks[b].next_temp_index
            ELSE /\ ~last'.ok
                 /\ blocks'[b] = blocks[b]]_vars

\* the instruction with index 1 was removed from between two others
C4_Witness ==
    /\ last.op = "remove_instruction"
    /\ last.ok
    /\ \E b \in Live :
        /\ Len(blocks[b].instructions) = 2
        /\ blocks[b].instructions[1].index = 0
        /\ blocks[b].instructions[2].index = 2
        /\ blocks[b].next_instruction_index = 3

\* a call that mutates block b
Mutates(b) ==
    \/ last'.op = "assign" /\ CallAssign(b)
    \/ last'.op = "store" /\ CallStore(b)
    \/ last'.op = "load" /\ CallLoad(b)
    \/ last'.op = "brc" /\ CallBrc(b)
    \/ last'.op = "phi" /\ CallPhi(b)
    \/ last'.op = "raise" /\ CallRaise(b)
    \/ last'.op = "prepend_phi" /\ CallPrependPhi(b)
    \/ last'.op = "temp" /\ CallTemp(b)
    \/ last'.op = "append" /\ \E o \in BlockIds : CallAppend(b, o)
    \/ last'.op = "remove_instruction" /\ \E i \in 0..MaxAlloc : CallRemoveInstruction(b, i)

\* C5: clone_new_index(k) returns a block with the original's instructions and
\* both counters and with block index k, the original staying as it was; a
\* later mutating call on either block leaves the other one unchanged.
C5_CloneNewIndex ==
    [][/\ \A s, d \in BlockIds, k \in BlockIndices :
            (last'.op = "clone_new_index" /\ CallCloneNewIndex(s, d, k)) =>
                /\ blocks'[d].instructions = blocks[s].instructions
                /\ blocks'[d].next_instruction_index = blocks[s].next_instruction_index
                /\ blocks'[d].next_temp_index = blocks[s].next_temp_index
                /\ blocks'[d].index = k
                /\ blocks'[d].live
                /\ blocks'[s] = blocks[s]
       /\ \A b \in BlockIds :
            Mutates(b) => \A x \in BlockIds \ {b} : blocks'[x] = blocks[x]]_vars

\* a block holding an instruction was cloned under another block index
C5_Witness ==
    /\ last.op = "clone_new_index"
    /\ blocks["self"].live /\ blocks["other"].live
    /\ blocks["self"].index # blocks["other"].index
    /\ blocks["self"].instructions = blocks["other"].instructions
    /\ Len(blocks["self"].instructions) = 1
    /\ blocks["other"].next_instruction_index = 1

\* C6: prepend_phi puts the new phi at position 0 with the index
\* next_instruction_index had before the call, which is above the index of every
\* instruction already there, raises the counter by one and keeps the other
\* instructions in their order with their indices.
C6_PrependPhi ==
    [][\A b \in BlockIds :
        (last'.op = "prepend_phi" /\ CallPrependPhi(b)) =>
            /\ Len(blocks'[b].instructions) = Len(blocks[b].instructions) + 1
            /\ blocks'[b].instructions[1] =
                    Instruction(blocks[b].next_instruction_index, "phi")
            /\ Tail(blocks'[b].instructions) = blocks[b].instructions
            /\ blocks'[b].next_instruction_index = blocks[b].next_instruction_index + 1
            /\ \A i \in Indices(blocks[b]) : i < blocks'[b].instructions[1].index]_vars

\* a phi with index 2 stands before the instructions with indices 0 and 1
C6_Witness ==
    /\ last.op = "prepend_phi"
    /\ \E b \in Live :
        /\ Len(blocks[b].instructions) = 3
        /\ blocks[b].instructions[1] = Instruction(2, "phi")
        /\ blocks[b].instructions[2].index = 0
        /\ blocks[b].instructions[3].index = 1

NoRepeats(s) == \A i, j \in 1..Len(s) : i # j => s[i] # s[j]

Range(s) == {s[i] : i \in 1..Len(s)}

\* C7: the names temp() returns on one block are pairwise different, whatever
\* was called in between; a name is "temp_<block index>.<next_temp_index>",
\* each call raises next_temp_index by one and touches neither the instructions
\* nor next_instruction_index; blocks with different block indices (a block and
\* its clone_new_index copy included) never return the same name.
C7_TempNamesUnique ==
    /\ [](/\ \A b \in Live : NoRepeats(issued[b])
          /\ \A b, c \in Live :
                blocks[b].index # blocks[c].index =>
                    Range(issued[b]) \cap Range(issued[c]) = {})
    /\ [][\A b \in BlockIds :
            (last'.op = "temp" /\ CallTemp(b)) =>
                /\ Len(issued'[b]) = Len(issued[b]) + 1
                /\ issued'[b][Len(issued'[b])] =
                        <<"t", "e", "m", "p", "_">> \o Decimal(blocks[b].index)
                            \o <<".">> \o Decimal(blocks[b].next_temp_index)
                /\ blocks'[b].next_temp_index = blocks[b].next_temp_index + 1
                /\ blocks'[b].instructions = blocks[b].instructions
                /\ blocks'[b].next_instruction_index = blocks[b].next_instruction_index]_vars

\* one block has returned two names and a block with another index a third
C7_Witness ==
    /\ last.op = "temp"
    /\ blocks["self"].live /\ blocks["other"].live
    /\ blocks["self"].index # blocks["other"].index
    /\ Len(issued["self"]) = 2
    /\ Len(issued["other"]) = 1

\* every phi of the block stands before every instruction that is not a phi
PhiFirst(blk) ==
    \A i, j \in Positions(blk) :
        (blk.instructions[i].op # "phi" /\ blk.instructions[j].op = "phi") => j < i

\* the calls that add no phi at the tail of a block
FrontKeeping == {"assign", "store", "load", "brc", "raise", "prepend_phi",
                 "remove_instruction", "temp"}

\* C18 as stated: in every block reachable through assign, store, load, brc,
\* phi, raise, prepend_phi, append and remove_instruction, every phi stands
\* before every instruction that is not a phi.
C18_PhiBeforeNonPhi == \A b \in Live : PhiFirst(blocks[b])

\* C18 amended: a new block has its phis first, and assign, store, load, brc,
\* raise, prepend_phi, remove_instruction (and temp) keep a block that has its
\* phis first that way; phi and append add at the tail and are not among them.
C18_PhiFirstKept ==
    [][\A b \in BlockIds :
        /\ (last'.op \in FrontKeeping /\ Mutates(b) /\ PhiFirst(blocks[b])) =>
                PhiFirst(blocks'[b])
        /\ (last'.op = "new" /\ \E i \in BlockIndices : CallNew(b, i)) =>
                PhiFirst(blocks'[b])]_vars

\* two phis were prepended to a block that held an assign
C18_Witness ==
    /\ last.op = "prepend_phi"
    /\ \E b \in Live :
        /\ Len(blocks[b].instructions) = 3
        /\ blocks[b].instructions[1] = Instruction(2, "phi")
        /\ blocks[b].instructions[2] = Instruction(1, "phi")
        /\ blocks[b].instructions[3] = Instruction(0, "assign")

\* C21: append(other) changes only the target's instructions and its
\* next_instruction_index, which grows by exactly the number of instructions in
\* other; the other block (instructions, their indices, both counters), the
\* target's block index and the target's next_temp_index stay as they were, and
\* a later mutating call on either block leaves the other one unchanged.
C21_AppendFrame ==
    [][/\ \A b, o \in BlockIds :
            (last'.op = "append" /\ CallAppend(b, o)) =>
                /\ blocks'[o] = blocks[o]
                /\ blocks'[b].index = blocks[b].index
                /\ blocks'[b].next_temp_index = blocks[b].next_temp_index
                /\ blocks'[b].live = blocks[b].live
                /\ blocks'[b].next_instruction_index =
                        blocks[b].next_instruction_index + Len(blocks[o].instructions)
                /\ issued' = issued
       /\ \A b \in BlockIds :
            Mutates(b) => blocks'[CHOOSE x \in BlockIds : x # b] =
                            blocks[CHOOSE x \in BlockIds : x # b]]_vars

\* an append took one instruction from a block whose temp counter is 1 into
\* an empty block whose temp counter is 0: the counters and block indices
\* still differ and the source still holds its instruction under index 0
C21_Witness ==
    /\ last.op = "append"
    /\ \E b, o \in Live :
        /\ b # o
        /\ blocks[b].index # blocks[o].index
        /\ blocks[o].next_temp_index = 1
        /\ blocks[b].next_temp_index = 0
        /\ Len(blocks[o].instructions) = 1
        /\ blocks[o].instructions[1].index = 0
        /\ blocks[o].next_instruction_index = 1
        /\ Len(blocks[b].instructions) = 1
        /\ blocks[b].next_instruction_index = 1

----------------------------------------------------------------------------
(* Properties of ElfLinker *)

\* how often load_elf got the Elf of the file at path
LoadCount(path) == Cardinality({k \in 1..Len(loads) : loads[k].path = path})

\* the root and every DT_NEEDED entry name a file that can be opened and loads
AllFilesExist ==
    /\ load_file(layout, resolve(root, root), 0).tag = "ok"
    /\ \A p \in FilePaths : \A i \in 1..Len(fs[p]) :
            load_file(layout, resolve(root, fs[p][i]), 0).tag = "ok"

\* the objects the DT_NEEDED entries reach from the root
Reachable == Targets(root, fs)

\* C8: when every file of the DT_NEEDED graph exists and parses, cycles,
\* self-dependencies and shared dependencies included, ElfLinker::new ends and
\* load_elf has run exactly once for each object reachable from the root: no
\* object is loaded a second time, and at the end none was left out.
C8_EachObjectLoadedOnce ==
    (status \in {"running", "ok"} /\ AllFilesExist) =>
        /\ \A p \in FilePaths : LoadCount(p) <= 1
        /\ status = "ok" => \A p \in Reachable : LoadCount(p) = 1

\* the k-th load_elf, k = 0 for the root, got the address
BaseOf(k) == IF k = 0 THEN 0 ELSE DEFAULT_LIB_BASE + k * LIB_BASE_STEP

RECURSIVE EdgeCount(_)
EdgeCount(S) ==
    IF S = {} THEN 0
    ELSE LET p == CHOOSE q \in S : TRUE IN Len(fs[p]) + EdgeCount(S \ {p})

RECURSIVE SegmentsBefore(_)
\* how many segments the loads before the k-th merged into memory
SegmentsBefore(k) ==
    IF k <= 1 THEN 0
    ELSE SegmentsBefore(k - 1) + Len(program_headers(layout, loads[k - 1].path))

\* the segments in the linker's memory that the k-th load merged
MergedBy(k) ==
    {memory[i] : i \in (SegmentsBefore(k) + 1)..SegmentsBefore(k + 1)}

Disjoint(s, t) ==
    \/ s.address + Len(s.bytes) <= t.address
    \/ t.address + Len(t.bytes) <= s.address

\* segments of two different loaded objects never overlap
NoOverlap ==
    \A j, k \in 1..Len(loads) :
        j # k => \A s \in MergedBy(j), t \in MergedBy(k) : Disjoint(s, t)

Max(S) == CHOOSE x \in S : \A y \in S : y <= x
Min(S) == CHOOSE x \in S : \A y \in S : x <= y

\* the span of the addresses an object occupies, lowest to highest
AddressSpan(path) ==
    LET segs == elf_memory(layout, path, 0)
    IN  Max({segs[i].address + Len(segs[i].bytes) : i \in 1..Len(segs)})
            - Min({segs[i].address : i \in 1..Len(segs)})

\* every segment of the object ends within one step of the object's base address
WithinStep(path) ==
    LET segs == elf_memory(layout, path, 0)
    IN  \A i \in 1..Len(segs) : segs[i].address + Len(segs[i].bytes) <= LIB_BASE_STEP

\* C10 as stated: when no loaded object's address span exceeds LIB_BASE_STEP,
\* the segments of two different loaded objects never overlap.
C10_NoOverlapBySpan ==
    (/\ status = "ok"
     /\ \A k \in 1..Len(loads) : AddressSpan(loads[k].path) <= LIB_BASE_STEP) =>
        NoOverlap

\* C10 amended: when every segment of every loaded object lies within
\* LIB_BASE_STEP of the object's base address (p_vaddr + length <=
\* LIB_BASE_STEP), the segments of two different loaded objects never overlap.
C10_NoOverlapWithinStep ==
    (/\ status = "ok"
     /\ \A k \in 1..Len(loads) : WithinStep(loads[k].path)) =>
        NoOverlap

\* three objects, each filling its step to the last address, are merged
C10_Witness ==
    /\ status = "ok"
    /\ layout = "fit"
    /\ Len(loads) = 3
    /\ Len(memory) = 6
    /\ \A k \in 1..Len(loads) : WithinStep(loads[k].path)

\* the file at path cannot be opened, is no ELF, or has a PT_LOAD file range
\* outside its buffer
Fails(path) == load_file(layout, path, 0).tag # "ok"

\* ElfLinker::new has ended, one way or another
Ended == status \in {"ok", "err", "panic"}

\* C11: when an object that the DT_NEEDED entries reach from the root cannot
\* be opened, is not a valid ELF or has a PT_LOAD file range outside its
\* buffer, ElfLinker::new returns an error value, at whatever depth the object
\* sits and whatever was loaded before it.
C11_FailureGivesError ==
    (Ended /\ \E p \in Reachable : Fails(p)) => status = "err"

\* the Elf the root file gives at base address 0
RootElf == Elf(resolve(root, root), 0)

\* C12: after a successful ElfLinker::new the loaded map has an entry under the
\* root file's base name, it is the root executable loaded at base address 0,
\* and program_entry() and architecture() return the root's values.
C12_RootEntryIsRoot ==
    status = "ok" =>
        /\ file_name(root) \in DOMAIN loaded
        /\ loaded[file_name(root)] = RootElf
        /\ ret.op = "program_entry" =>
                (ret.tag = "ok" /\ ret.value = e_entry_of(resolve(root, root)))
        /\ ret.op = "architecture" =>
                ret.tag = (IF resolve(root, root) = <<"d", "b">> THEN "err" ELSE "ok")

\* the keys of the loaded map in ascending order
SortedKeys == SelectSeq(KeyOrder, LAMBDA k : k \in DOMAIN loaded)

\* function_entries() of the object under key k
OwnEntries(k) == Elf_function_entries(elf_of(layout, loaded[k])).value

RECURSIVE EntriesBefore(_)
\* how many entries the objects before position n of SortedKeys have
EntriesBefore(n) ==
    IF n <= 1 THEN 0
    ELSE EntriesBefore(n - 1) + Len(OwnEntries(SortedKeys[n - 1]))

\* C16: after a successful ElfLinker::new, memory() holds every segment of every
\* object of the loaded map at its relocated address, and function_entries()
\* is the function_entries() of the loaded objects one after the other in
\* ascending key order, nothing added and nothing dropped.
C16_MergedViews ==
    status = "ok" =>
        /\ ret.op = "memory" =>
            /\ ret.tag = "ok"
            /\ \A k \in DOMAIN loaded :
                LET segs == elf_memory(layout, loaded[k].path, loaded[k].base_address)
                    phs == program_headers(layout, loaded[k].path)
                IN  /\ Len(segs) = Len(phs)
                    /\ \A i \in 1..Len(segs) :
                        /\ segs[i].address = phs[i].p_vaddr + loaded[k].base_address
                        /\ \E j \in 1..Len(ret.value) : ret.value[j] = segs[i]
        /\ ret.op = "function_entries" =>
            /\ ret.tag = "ok"
            /\ Len(ret.value) = EntriesBefore(Len(SortedKeys) + 1)
            /\ \A n \in 1..Len(SortedKeys) :
                \A i \in 1..Len(OwnEntries(SortedKeys[n])) :
                    ret.value[EntriesBefore(n) + i] = OwnEntries(SortedKeys[n])[i]

\* function_entries() was called on a linker holding a, b and c: one entry of
\* a, two of b and two of c
C16_Witness ==
    /\ status = "ok"
    /\ ret.op = "function_entries"
    /\ DOMAIN loaded = {"a", "b", "c"}
    /\ Len(ret.value) = 5
    /\ ret.value[1].address = 1
    /\ ret.value[2].address > DEFAULT_LIB_BASE

\* s is the beginning of t
Prefix(s, t) == Len(s) <= Len(t) /\ SubSeq(t, 1, Len(s)) = s

\* C17: a load_elf for a file whose base name is a key of the loaded map puts
\* the new Elf under that key (one entry per base name, the other entries as
\* they were), and the segments merged before stay in the linker's memory; no
\* step ever takes a segment out of the memory.
C17_OverwriteKeepsMemory ==
    [][/\ Prefix(memory, memory')
       /\ (loads' # loads /\ loads # <<>>) =>
            LET e == loads'[Len(loads')]
                key == file_name(e.path)
            IN  /\ DOMAIN loaded' = DOMAIN loaded \cup {key}
                /\ loaded'[key] = e
                /\ \A k \in DOMAIN loaded \ {key} : loaded'[k] = loaded[k]
                /\ memory' = memory \o elf_memory(layout, e.path, e.base_address)]_vars

\* b was loaded, then d/b took its place in the map, and the segments of all
\* three loads are in the memory
C17_Witness ==
    /\ status = "ok"
    /\ root = <<"a">>
    /\ Len(loads) = 3
    /\ loads[2].path = <<"b">>
    /\ loads[3].path = <<"d", "b">>
    /\ DOMAIN loaded = {"a", "b"}
    /\ loaded["b"] = loads[3]
    /\ \A s \in MergedBy(2) : \E i \in 1..Len(memory) : memory[i] = s

\* C19: when load_elf returns an error, the loaded map, the memory and
\* next_lib_address are what they were before the call; for the load_elf that
\* ElfLinker::new makes that is the empty linker.
C19_FailedLoadLeavesNothing ==
    status = "err" =>
        /\ DOMAIN loaded = {}
        /\ memory = <<>>
        /\ next_lib_address = DEFAULT_LIB_BASE

----------------------------------------------------------------------------
(* Properties of Elf *)

\* the Elf the calls are made on
TheElf == elf.value

\* the first sixteen bytes of the buffer are there and are an ELF signature
Recognized(bytes) ==
    /\ Len(bytes) >= SIZEOF_IDENT
    /\ \A i \in 1..Len(ELFMAG) : bytes[i] = ELFMAG[i]

\* the entries of a call of function_entries that carry name
Named(entries, name) == {i \in 1..Len(entries) : entries[i].name = name}

\* address is the value of a function-typed symbol with nonzero value
IsSymbolValue(image, address) ==
    \/ \E i \in 1..Len(image.dynsyms) :
            /\ image.dynsyms[i].function
            /\ image.dynsyms[i].st_value # 0
            /\ image.dynsyms[i].st_value = address
    \/ \E i \in 1..Len(image.syms) :
            /\ image.syms[i].function
            /\ image.syms[i].st_value # 0
            /\ image.syms[i].st_value = address

\* how many symbols of a table are function-typed with nonzero value
SymbolCount(table) ==
    Cardinality({i \in 1..Len(table) : table[i].function /\ table[i].st_value # 0})

\* C13: for a user-declared address u, function_entries() holds the entry
\* "user_function_<hex u>" at u + base_address exactly when u is neither the
\* unrelocated value of a function symbol with nonzero value nor the entry
\* point, whatever base_address is.
C13_UserEntryIffUncovered ==
    (ret.op = "function_entries" /\ ret.tag = "ok") =>
        \A k \in 1..Len(TheElf.user_function_entries) :
            LET u == TheElf.user_function_entries[k]
            IN  (\E i \in 1..Len(ret.value) :
                    ret.value[i] = FunctionEntry(u + TheElf.base_address,
                                                 <<user_function_name(u)>>))
                <=> (~IsSymbolValue(buffer, u) /\ u # buffer.e_entry)

\* C14: function_entries() holds an unnamed entry, at e_entry + base_address,
\* exactly when no function-typed symbol with nonzero value of either table
\* has the value e_entry; when one has, there are as many entries as symbols
\* and user entries alone give; with no symbols and no user functions the
\* result is the one entry-point entry.
C14_EntryPointEntry ==
    (ret.op = "function_entries" /\ ret.tag = "ok") =>
        /\ (\E i \in 1..Len(ret.value) :
                ret.value[i] = FunctionEntry(buffer.e_entry + TheElf.base_address, <<>>))
            <=> ~IsSymbolValue(buffer, buffer.e_entry)
        /\ Cardinality(Named(ret.value, <<>>)) <= 1
        /\ \A i \in Named(ret.value, <<>>) :
                ret.value[i].address = buffer.e_entry + TheElf.base_address
        /\ IsSymbolValue(buffer, buffer.e_entry) =>
                Len(ret.value) =
                    SymbolCount(buffer.dynsyms) + SymbolCount(buffer.syms)
                    + Cardinality({i \in 1..Len(ret.value) :
                        \E u \in UserAddresses :
                            ret.value[i].name = <<user_function_name(u)>>})
        /\ (/\ SymbolCount(buffer.dynsyms) + SymbolCount(buffer.syms) = 0
            /\ TheElf.user_function_entries = <<>>) =>
                ret.value = <<FunctionEntry(buffer.e_entry + TheElf.base_address, <<>>)>>

\* function_entries() was called on an Elf whose entry point is the value of
\* its function f and which has a user function: two entries, none unnamed
C14_Witness ==
    /\ ret.op = "function_entries"
    /\ ret.tag = "ok"
    /\ buffer.e_entry = 1
    /\ buffer.dynsyms = <<Sym(<<"f">>, TRUE, 1)>>
    /\ buffer.syms = <<>>
    /\ TheElf.base_address = 0
    /\ TheElf.user_function_entries = <<2>>
    /\ Len(ret.value) = 2
    /\ Named(ret.value, <<>>) = {}

\* the PT_LOAD headers of a file, in file order
LoadHeaders(image) ==
    SelectSeq(image.program_headers, LAMBDA ph : ph.p_type = PT_LOAD)

Larger(a, b) == IF a >= b THEN a ELSE b

\* C15: for an ELF whose PT_LOAD file ranges lie inside the buffer, memory()
\* returns one segment per PT_LOAD header, at p_vaddr + base_address, of length
\* max(p_filesz, p_memsz), its first p_filesz bytes the file bytes from p_offset
\* and the rest zero, for p_memsz above, equal to and below p_filesz.
C15_MemorySegments ==
    (/\ ret.op = "memory"
     /\ buffer.parses
     /\ \A i \in 1..Len(LoadHeaders(buffer)) :
            LoadHeaders(buffer)[i].p_offset + LoadHeaders(buffer)[i].p_filesz
                <= Len(buffer.bytes)) =>
        /\ ret.tag = "ok"
        /\ Len(ret.value) = Len(LoadHeaders(buffer))
        /\ \A i \in 1..Len(LoadHeaders(buffer)) :
            LET ph == LoadHeaders(buffer)[i]
                seg == ret.value[i]
            IN  /\ seg.address = ph.p_vaddr + TheElf.base_address
                /\ Len(seg.bytes) = Larger(ph.p_filesz, ph.p_memsz)
                /\ \A j \in 1..ph.p_filesz : seg.bytes[j] = buffer.bytes[ph.p_offset + j]
                /\ \A j \in (ph.p_filesz + 1)..Len(seg.bytes) : seg.bytes[j] = 0

\* C20: Elf::new returns an Elf or an error value for every buffer, also one
\* of fewer than 16 bytes, and an error for every buffer whose first 16 bytes
\* are not an ELF signature; it never aborts the process.
C20_NewReturnsForEveryBuffer ==
    ret.op = "new" =>
        /\ ret.tag \in {"ok", "err"}
        /\ ~Recognized(buffer.bytes) => ret.tag = "err"

====
